---- MODULE Spec2Model ----
(***************************************************************************)
(* dataseer_client: DataseerClient of src/dataseer_client/client.py.       *)
(*                                                                         *)
(* The model follows one client object: its construction (liveness probe), *)
(* process() walking the input tree and cutting it into batches,           *)
(* process_batch() submitting the batch to a ProcessPoolExecutor of n      *)
(* workers and then writing the results, and process_pdf()/process_tei()   *)
(* running in the workers, with their call stack, because the 503 retry    *)
(* is a recursive call made inside a try whose finally clause returns.     *)
(*                                                                         *)
(* A file name is the sequence of its dot-separated segments, so that      *)
(* "a.pdf.gz" is <<"a","pdf","gz">>: str.endswith and str.split(".") are   *)
(* computed on it.  A path is [root, dir, name].                           *)
(***************************************************************************)
EXTENDS Integers, Sequences, FiniteSets, TLC

\* ------------------------------------------------------------------ bounds
MaxFiles == 2        \* files in the input tree
MaxWorkers == 2      \* largest n (max_workers) tried
MaxBatch == 2        \* largest config["batch_size"] tried
MaxFaults == 1       \* answers other than 200, and failed writes, in one behaviour

\* ------------------------------------------------------- values of the code
None == "None"                 \* Python None
endpoint_isalive == "isalive"
endpoint_tei == "processDataseerTEI"
endpoint_pdf == "processDataseerPDF"
Services == {endpoint_pdf, endpoint_tei}

\* the two roots the model distinguishes: input_path and the --output root
InRoot == "in"
OutRoot == "out"

File(dir, name) == [root |-> InRoot, dir |-> dir, name |-> name]

\* the files an input tree can hold (a root directory and one subdirectory d)
FileUniverse ==
  { File(<<>>, <<"a", "pdf">>),
    File(<<>>, <<"a", "pdf", "gz">>),
    File(<<"d">>, <<"a", "pdf">>),
    File(<<"d">>, <<"b", "tei", "xml">>) }

\* str.endswith("." + suffix segments)
endswith(name, suf) ==
  /\ Len(name) > Len(suf)
  /\ SubSeq(name, Len(name) - Len(suf) + 1, Len(name)) = suf

\* the extension test of process()
Matches(service, name) ==
  \/ /\ service = endpoint_pdf
     /\ (endswith(name, <<"pdf", "gz">>) \/ endswith(name, <<"pdf">>))
  \/ /\ service = endpoint_tei
     /\ endswith(name, <<"tei", "xml">>)

\* DataseerClient._output_file_name: with an output root the file goes to
\* join(output, basename.split(".")[0] + suffix); without, to the input's
\* own directory.
_output_file_name(input_file, input_path, output) ==
  IF output # None
  THEN [root |-> output, dir |-> <<>>,
        name |-> <<input_file.name[1], "dataseer", "tei", "xml">>]
  ELSE [root |-> input_file.root, dir |-> input_file.dir,
        name |-> <<input_file.name[1], "dataseer", "tei", "xml">>]

\* every path at which a file of the input tree can be found: the input files
\* and the outputs written next to them when no output root is given
Paths == FileUniverse \cup {_output_file_name(f, InRoot, None) : f \in FileUniverse}

\* every path an output can be written to
OutPaths ==
  {_output_file_name(f, InRoot, o) : f \in Paths, o \in {None, OutRoot}}

NoFile == "NoFile"             \* os.path.isfile is false
Truncated == ""                \* content of a file opened for writing and not written
OldBody == "old"               \* content of an output left by an earlier run

\* the answers of the service to one POST: a status, or a requests exception
Statuses == {200, 503, 500, 404, 400, 204}
Exceptions == {"Timeout", "TooManyRedirects", "RequestException"}

\* ------------------------------------------------ process_pdf / process_tei
\* the function process_batch submits for a service
selected_process(svc) ==
  IF svc = endpoint_pdf THEN "process_pdf" ELSE "process_tei"

\* url = self.service_url + self.endpoint_...
url(fn) == IF fn = "process_pdf" THEN endpoint_pdf ELSE endpoint_tei

\* a fresh activation of process_pdf / process_tei: no local is assigned yet
\* (assigned is the set of locals that are bound)
Frame(fn) == [fn |-> fn, assigned |-> {}, response |-> 0, tei_data |-> None]

\* variant: every 5xx status is taken for an overload
IsOverloaded5xx(status) == status >= 500

\* the only status after which the function sleeps and calls itself again
IsOverloaded(status) == status = 503

\* the function called for the retry (both functions call process_tei)
RetryFn(fn) == "process_tei"

\* variant: the text of every answer below 400 is kept
TryBodyKeepsText(frame, status, text) ==
  [frame |-> [frame EXCEPT !.assigned = {"response", "tei_data"},
                           !.response = status,
                           !.tei_data = IF status >= 400 THEN None ELSE text],
   pending |-> IF status = 404 THEN "TypeError" ELSE "none"]

\* the try block on an answered POST with a status other than 503: the
\* locals it assigns, and how it completes (the print of the 404 branch adds
\* an int to a str and raises TypeError)
TryBody(frame, status, text) ==
  [frame |-> [frame EXCEPT !.assigned = {"response", "tei_data"},
                           !.response = status,
                           !.tei_data = IF status >= 500 THEN None
                                        ELSE IF status = 404 THEN None
                                        ELSE IF status >= 400 THEN None
                                        ELSE IF status = 200 THEN text
                                        ELSE None],
   pending |-> IF status < 500 /\ status = 404 THEN "TypeError" ELSE "none"]

\* the try block when requests.post raises: nothing is assigned, the except
\* clause prints
TryRaised(frame, exc) == [frame |-> frame, pending |-> "none"]

\* what a call hands to its caller
Return(file, status, text) ==
  [kind |-> "return", file |-> file, status |-> status, text |-> text,
   exc |-> "none"]

Raise(file, exc) ==
  [kind |-> "raise", file |-> file, status |-> 0, text |-> None, exc |-> exc]

\* finally: return (file, response.status_code, tei_data).  The return
\* discards whatever the try block was completing with (a return value or an
\* exception); reading an unassigned local raises UnboundLocalError instead.
Finally(file, frame, pending) ==
  IF "response" \notin frame.assigned
  THEN Raise(file, "UnboundLocalError")
  ELSE Return(file, frame.response, frame.tei_data)

\* the innermost call has completed with `pending`: every caller below it is
\* at `return self.process_tei(...)` inside its try, and runs its finally
RECURSIVE Unwind(_, _, _)
Unwind(file, stack, pending) ==
  IF stack = <<>> THEN pending
  ELSE Unwind(file, SubSeq(stack, 1, Len(stack) - 1),
              Finally(file, stack[Len(stack)], pending))

\* an answer of the service to one POST
Answer(status, text) == [status |-> status, exc |-> "none", text |-> text]

Failure(exc) == [status |-> 0, exc |-> exc, text |-> ""]

\* the annotated document the service makes of a file posted to an endpoint
Text(file, endpoint) == ToString(<<endpoint, file.dir, file.name>>)

\* the answers the service can give to the POST of a file to an endpoint
Answers(file, endpoint) ==
  {Answer(200, Text(file, endpoint))}
    \cup {Answer(st, "") : st \in Statuses \ {200}}
    \cup {Failure(e) : e \in Exceptions}

\* what the history keeps of an answer: the status and text, or that the POST raised
Seen(a) == [status |-> a.status, text |-> a.text, raised |-> a.exc # "none"]

\* ------------------------------------------------------------------- state
VARIABLES
  tree,          \* the input files under input_path
  service,       \* process(service, ...)
  output,        \* process(..., output): None or the output root
  n,             \* process(..., n): max_workers
  force,         \* process(..., force)
  batch_size,    \* config["batch_size"]
  pc,            \* where the main thread is
  listing,       \* what os.walk finds in this run
  visited,       \* the files os.walk has yielded so far
  input_files,   \* process: the batch being filled; process_batch: its argument
  last,          \* process_batch was called from the "last batch" site
  i,             \* process_batch: position of the submit loop in input_files
  results,       \* process_batch: the futures, named by their file
  queue,         \* the executor's pending work items
  fut,           \* per file: the state of its future and its result
  stack,         \* per file: the activations of process_pdf/process_tei in its worker
  collected,     \* the futures as_completed has yielded
  fs,            \* the output files on disk: content, or NoFile
  dirs,          \* the directories on disk
  log,           \* what was printed about a file: skipping, failed, write_failed
  reqs,          \* per file: the endpoint of every POST made for it in this run
  resps,         \* per file: the answers to those POSTs
  sleeps,        \* per file: the number of time.sleep calls
  batches,       \* the input_files of every process_batch call of this run
  existed,       \* per file: whether its output existed when the submit loop reached it
  outcomes,      \* per file: how many results the result loop took out of its future
  written,       \* the files whose output the result loop wrote in this run
  elapsed,       \* time.time() - start_time, rounded: 0 until something slow happened
  faults,        \* the answers other than 200 and the failed writes so far
  rerun,         \* this is the second call of process() on the same inputs
  prev_written   \* written, at the end of the first call

vars ==
  << tree, service, output, n, force, batch_size, pc, listing, visited,
     input_files, last, i, results, queue, fut, stack, collected, fs, dirs,
     log, reqs, resps, sleeps, batches, existed, outcomes, written, elapsed,
     faults, rerun, prev_written >>

args == << tree, service, output, n, force, batch_size >>
walk == << listing, visited >>
pool == << queue, fut, stack >>
http == << reqs, resps, sleeps >>
disk == << fs, dirs >>
runs == << rerun, prev_written >>

input_path == InRoot

Elems(seq) == {seq[k] : k \in 1..Len(seq)}

\* a line printed about a file (for an uncaught exception: its traceback)
Report(kind, file, status) == [kind |-> kind, file |-> file, status |-> status]

NoFuture == [state |-> "none", result |-> Return(None, 0, None)]

Dir(path) == [root |-> path.root, dir |-> path.dir]

\* pathlib.Path(d).mkdir(parents=True, exist_ok=True)
Mkdir(ds, d) ==
  ds \cup {[root |-> d.root, dir |-> SubSeq(d.dir, 1, k)] : k \in 0..Len(d.dir)}

\* os.path.isfile
isfile(path) == path \in DOMAIN fs /\ fs[path] # NoFile

\* the per-run state before process() is called
fresh ==
  [listing |-> {}, visited |-> {}, input_files |-> <<>>, last |-> FALSE,
   i |-> 1, results |-> <<>>, queue |-> <<>>, collected |-> {},
   fut |-> [f \in Paths |-> NoFuture],
   stack |-> [f \in Paths |-> <<>>],
   log |-> {},
   reqs |-> [f \in Paths |-> <<>>],
   resps |-> [f \in Paths |-> <<>>],
   sleeps |-> [f \in Paths |-> 0],
   batches |-> <<>>,
   existed |-> [f \in Paths |-> FALSE],
   outcomes |-> [f \in Paths |-> 0],
   written |-> {},
   elapsed |-> 0,
   faults |-> 0]

\* the outputs the files of the tree map to
OutputsOf(files, out) == {_output_file_name(f, input_path, out) : f \in files}

Init ==
  /\ tree \in {S \in SUBSET FileUniverse : Cardinality(S) <= MaxFiles}
  /\ service \in Services
  /\ output \in {None, OutRoot}
  /\ n \in 1..MaxWorkers
  /\ force \in BOOLEAN
  /\ batch_size \in 1..MaxBatch
  /\ pc = "new"
  /\ fs \in [OutPaths -> {NoFile, OldBody}]
  /\ \A p \in OutPaths : fs[p] # NoFile => p \in OutputsOf(tree, output)
  /\ dirs = {Dir(f) : f \in tree} \cup {Dir(p) : p \in {q \in OutPaths : fs[q] # NoFile}}
            \cup {[root |-> InRoot, dir |-> <<>>]}
  /\ listing = fresh.listing
  /\ visited = fresh.visited
  /\ input_files = fresh.input_files
  /\ last = fresh.last
  /\ i = fresh.i
  /\ results = fresh.results
  /\ queue = fresh.queue
  /\ collected = fresh.collected
  /\ fut = fresh.fut
  /\ stack = fresh.stack
  /\ log = fresh.log
  /\ reqs = fresh.reqs
  /\ resps = fresh.resps
  /\ sleeps = fresh.sleeps
  /\ batches = fresh.batches
  /\ existed = fresh.existed
  /\ outcomes = fresh.outcomes
  /\ written = fresh.written
  /\ elapsed = fresh.elapsed
  /\ faults = fresh.faults
  /\ rerun = FALSE
  /\ prev_written = {}

\* ------------------------------------------------------------ __init__
\* what requests.get(isalive) can do: raise, or return an answer of any status
ProbeResults == {"probe_failed", "probe_200", "probe_500"}

\* __init__ -> _test_server_connection sends the GET, which fails or is answered
Probe ==
  /\ pc = "new"
  /\ pc' \in ProbeResults
  /\ UNCHANGED << args, walk, input_files, last, i, results, pool, collected,
                  disk, log, http, batches, existed, outcomes, written,
                  elapsed, faults, runs >>

\* variant: an answer other than 200 ends the construction too
ProbeOutcomeStrict(probe) == IF probe = "probe_200" THEN "ready" ELSE "unavailable"

\* the bare except raises ServerUnavailableException; a status other than 200
\* only prints a warning
ProbeOutcome(probe) == IF probe = "probe_failed" THEN "unavailable" ELSE "ready"

\* the rest of _test_server_connection and of __init__
Construct ==
  /\ pc \in ProbeResults
  /\ pc' = ProbeOutcome(pc)
  /\ UNCHANGED << args, walk, input_files, last, i, results, pool, collected,
                  disk, log, http, batches, existed, outcomes, written,
                  elapsed, faults, runs >>

\* ------------------------------------------------------------- process()
\* the files of the input tree when os.walk lists it: the input files and the
\* outputs already written into the tree
Listing == tree \cup {q \in Paths : q.root = InRoot /\ isfile(q)}

\* process() is called: start_time is taken, input_files = []
Process ==
  /\ pc = "ready"
  /\ pc' = "walk"
  /\ listing' = Listing
  /\ UNCHANGED << args, visited, input_files, last, i, results, pool,
                  collected, disk, log, http, batches, existed, outcomes,
                  written, elapsed, faults, runs >>

\* os.walk is top-down: a directory's files come before its subdirectories'.
\* Within a directory the order is the one the filesystem lists; here the
\* listing gives shorter names first.
WalkNext(f) ==
  /\ f \in listing \ visited
  /\ \A g \in listing \ visited : Len(g.dir) >= Len(f.dir)
  /\ \A g \in listing \ visited :
       Len(g.dir) = Len(f.dir) => Len(g.name) >= Len(f.name)

\* the test that cuts a batch
BatchFull(files) == Len(files) = batch_size

\* one file of the walk: kept when its name matches the service, and the
\* batch is handed to process_batch when it is full
WalkStep ==
  /\ pc = "walk"
  /\ \E f \in listing :
       /\ WalkNext(f)
       /\ visited' = visited \cup {f}
       /\ IF Matches(service, f.name)
          THEN /\ input_files' = Append(input_files, f)
               /\ IF BatchFull(input_files')
                  THEN /\ pc' = "submit"
                       /\ batches' = Append(batches, input_files')
                  ELSE UNCHANGED << pc, batches >>
          ELSE UNCHANGED << input_files, pc, batches >>
  /\ UNCHANGED << args, listing, last, i, results, collected, pool, disk,
                  log, http, existed, outcomes, written, elapsed, faults,
                  runs >>

\* the walk is over: the last batch, if there is one
WalkEnd ==
  /\ pc = "walk"
  /\ visited = listing
  /\ IF Len(input_files) > 0
     THEN /\ pc' = "submit"
          /\ last' = TRUE
          /\ batches' = Append(batches, input_files)
     ELSE /\ pc' = "done"
          /\ UNCHANGED << last, batches >>
  /\ UNCHANGED << args, walk, input_files, i, results, collected, pool,
                  disk, log, http, existed, outcomes, written, elapsed,
                  faults, runs >>

\* --------------------------------------------------------- process_batch()
\* variant: the submit loop derives its path without the output root
SkipPathNoOutput(input_file) == _output_file_name(input_file, input_path, None)

\* the path the submit loop tests, and the path the result loop writes
SkipPath(input_file) == _output_file_name(input_file, input_path, output)

WritePath(input_file) == _output_file_name(input_file, input_path, output)

\* variant: the skip rule without the force flag
SkipsAlways(input_file) == isfile(SkipPath(input_file))

\* the skip rule
Skips(input_file) == ~force /\ isfile(SkipPath(input_file))

\* one iteration of the submit loop
SubmitStep ==
  /\ pc = "submit"
  /\ i <= Len(input_files)
  /\ LET input_file == input_files[i] IN
       /\ existed' = [existed EXCEPT ![input_file] = isfile(SkipPath(input_file))]
       /\ IF Skips(input_file)
          THEN /\ log' = log \cup {Report("skipping", input_file, 0)}
               /\ UNCHANGED << results, queue, fut, elapsed >>
          ELSE /\ results' = Append(results, input_file)
               /\ queue' = Append(queue, input_file)
               /\ fut' = [fut EXCEPT ![input_file].state = "pending"]
               /\ elapsed' = 1
               /\ UNCHANGED log
  /\ i' = i + 1
  /\ UNCHANGED << args, pc, walk, input_files, last, stack, collected, disk,
                  http, batches, outcomes, written, faults, runs >>

\* the end of the with block: executor.shutdown(wait=True)
Finished(f) == fut[f].state = "done"

\* variant: the result loop starts without waiting for the executor
AllFinishedNoWait == TRUE

\* shutdown(wait=True) returns when every submitted call is over
AllFinished == \A k \in 1..Len(results) : Finished(results[k])

Shutdown ==
  /\ pc = "submit"
  /\ i > Len(input_files)
  /\ AllFinished
  /\ pc' = "results"
  /\ UNCHANGED << args, walk, input_files, last, i, results, pool, collected,
                  disk, log, http, batches, existed, outcomes, written,
                  elapsed, faults, runs >>

\* what can happen to mkdir + open + write: all succeed; mkdir raises OSError;
\* open raises OSError; write raises OSError after open truncated the file
WriteOutcomes == {"ok", "mkdir_fails", "open_fails", "write_fails"}

\* variant: nothing around the write catches
CaughtNothing(w) == FALSE

\* the exceptions the result loop catches around the write
Caught(w) == w \in {"mkdir_fails", "open_fails", "write_fails"}

\* r.result() re-raises what the call raised; nothing around it catches that
CollectRaised(f, r) ==
  /\ pc' = "crashed"
  /\ log' = log \cup {Report(r.exc, f, 0)}
  /\ UNCHANGED << collected, disk, outcomes, written, faults >>

\* variant: the parents of the output are created before text is tested
CollectFailedMkdir(f, r) ==
  /\ collected' = collected \cup {f}
  /\ outcomes' = [outcomes EXCEPT ![f] = @ + 1]
  /\ log' = log \cup {Report("failed", r.file, r.status)}
  /\ dirs' = Mkdir(dirs, Dir(WritePath(r.file)))
  /\ UNCHANGED << pc, fs, written, faults >>

\* text is None: the failure is printed
CollectFailed(f, r) ==
  /\ collected' = collected \cup {f}
  /\ outcomes' = [outcomes EXCEPT ![f] = @ + 1]
  /\ log' = log \cup {Report("failed", r.file, r.status)}
  /\ UNCHANGED << pc, disk, written, faults >>

\* text is not None: mkdir, open, write, with `except OSError` around them
CollectWrite(f, r, w) ==
  LET filename == WritePath(r.file) IN
  /\ w # "ok" => faults < MaxFaults
  /\ faults' = IF w = "ok" THEN faults ELSE faults + 1
  /\ collected' = collected \cup {f}
  /\ outcomes' = [outcomes EXCEPT ![f] = @ + 1]
  /\ dirs' = IF w = "mkdir_fails" THEN dirs ELSE Mkdir(dirs, Dir(filename))
  /\ fs' = IF w = "ok" THEN [fs EXCEPT ![filename] = r.text]
           ELSE IF w = "write_fails" THEN [fs EXCEPT ![filename] = Truncated]
           ELSE fs
  /\ written' = IF w = "ok" THEN written \cup {r.file} ELSE written
  /\ pc' = IF w = "ok" \/ Caught(w) THEN pc ELSE "crashed"
  /\ log' = IF w = "ok" THEN log
            ELSE IF Caught(w) THEN log \cup {Report("write_failed", r.file, r.status)}
            ELSE log \cup {Report("OSError", r.file, 0)}

\* one iteration of `for r in as_completed(results)`
Collect ==
  /\ pc = "results"
  /\ \E f \in Elems(results) \ collected :
       /\ Finished(f)
       /\ LET r == fut[f].result IN
            IF r.kind = "raise" THEN CollectRaised(f, r)
            ELSE IF r.text = None THEN CollectFailed(f, r)
            ELSE \E w \in WriteOutcomes : CollectWrite(f, r, w)
  /\ UNCHANGED << args, walk, input_files, last, i, results, pool, http,
                  batches, existed, elapsed, runs >>

\* variant: process_batch returns without waiting for the result loop
ResultsExhaustedEarly == TRUE

\* `for r in as_completed(results)` has yielded every future
ResultsExhausted == collected = Elems(results)

\* the rounded runtimes process() can compute after a batch: 0.0 while nothing
\* slower than half a millisecond has happened since start_time
Runtimes == IF elapsed = 0 THEN {0, 1} ELSE {1}

\* process_batch returns; after a full batch process() prints the rate
\* nb_total/runtime (ZeroDivisionError when runtime is 0.0) and empties the batch
BatchReturn ==
  /\ pc = "results"
  /\ ResultsExhausted
  /\ IF last
     THEN /\ pc' = "done"
          /\ UNCHANGED << input_files, elapsed, log >>
     ELSE \E runtime \in Runtimes :
            /\ elapsed' = runtime
            /\ IF runtime = 0
               THEN /\ pc' = "crashed"
                    /\ log' = log \cup {Report("ZeroDivisionError", input_files[1], 0)}
                    /\ UNCHANGED input_files
               ELSE /\ pc' = "walk"
                    /\ input_files' = <<>>
                    /\ UNCHANGED log
  /\ last' = FALSE
  /\ i' = 1
  /\ results' = <<>>
  /\ collected' = {}
  /\ UNCHANGED << args, walk, pool, disk, http, batches, existed,
                  outcomes, written, faults, runs >>

\* ------------------------------------------------------ the worker processes
InFlight == {f \in Paths : fut[f].state \in {"running", "sleeping"}}

\* variant: an executor that starts every work item at once
HasIdleWorkerUnbounded == TRUE

\* ProcessPoolExecutor(max_workers=n): a work item starts when a worker is idle
HasIdleWorker == Cardinality(InFlight) < n

\* a worker takes the oldest work item and calls selected_process: the first POST
Start ==
  /\ pc \in {"submit", "results"}
  /\ queue # <<>>
  /\ HasIdleWorker
  /\ LET f == Head(queue)
         fn == selected_process(service) IN
       /\ queue' = Tail(queue)
       /\ fut' = [fut EXCEPT ![f].state = "running"]
       /\ stack' = [stack EXCEPT ![f] = <<Frame(fn)>>]
       /\ reqs' = [reqs EXCEPT ![f] = Append(@, url(fn))]
  /\ UNCHANGED << args, pc, walk, input_files, last, i, results, collected,
                  disk, log, resps, sleeps, batches, existed, outcomes,
                  written, elapsed, faults, runs >>

\* the POST of the innermost call is answered (or fails).  On 503 the call
\* sleeps; otherwise it completes and every call below it completes.
Respond ==
  /\ pc \in {"submit", "results"}
  /\ \E f \in {g \in Paths : fut[g].state = "running"} :
     \E a \in Answers(f, reqs[f][Len(reqs[f])]) :
       /\ a # Answer(200, a.text) => faults < MaxFaults
       /\ faults' = IF a = Answer(200, a.text) THEN faults ELSE faults + 1
       /\ resps' = [resps EXCEPT ![f] = Append(@, Seen(a))]
       /\ LET top == stack[f][Len(stack[f])]
              below == SubSeq(stack[f], 1, Len(stack[f]) - 1) IN
          IF a.exc = "none" /\ IsOverloaded(a.status)
          THEN /\ stack' = [stack EXCEPT ![f] =
                              Append(below, TryBody(top, a.status, a.text).frame)]
               /\ fut' = [fut EXCEPT ![f].state = "sleeping"]
               /\ sleeps' = [sleeps EXCEPT ![f] = @ + 1]
          ELSE LET t == IF a.exc = "none" THEN TryBody(top, a.status, a.text)
                        ELSE TryRaised(top, a.exc) IN
               /\ stack' = [stack EXCEPT ![f] = <<>>]
               /\ fut' = [fut EXCEPT ![f] =
                            [state |-> "done",
                             result |-> Unwind(f, Append(below, t.frame), t.pending)]]
               /\ UNCHANGED sleeps
  /\ UNCHANGED << args, pc, walk, input_files, last, i, results, queue,
                  collected, disk, log, reqs, batches, existed, outcomes,
                  written, elapsed, runs >>

\* time.sleep is over: return self.process_tei(service, file), a new POST
Wake ==
  /\ pc \in {"submit", "results"}
  /\ \E f \in Paths :
       /\ fut[f].state = "sleeping"
       /\ LET fn == RetryFn(stack[f][Len(stack[f])].fn) IN
            /\ stack' = [stack EXCEPT ![f] = Append(@, Frame(fn))]
            /\ reqs' = [reqs EXCEPT ![f] = Append(@, url(fn))]
       /\ fut' = [fut EXCEPT ![f].state = "running"]
  /\ UNCHANGED << args, pc, walk, input_files, last, i, results, queue,
                  collected, disk, log, resps, sleeps, batches, existed,
                  outcomes, written, elapsed, faults, runs >>

Next ==
  \/ Probe
  \/ Construct
  \/ Process
  \/ WalkStep
  \/ WalkEnd
  \/ SubmitStep
  \/ Shutdown
  \/ Collect
  \/ BatchReturn
  \/ Start
  \/ Respond
  \/ Wake

Spec == Init /\ [][Next]_vars

\* the same program where nothing stops while it can go on: the main process,
\* the workers and the service (every POST is answered or times out) all run
SpecFair == Spec /\ WF_vars(Next)

\* ---------------------------------------------------------- a second run
\* process() is called a second time, with the same arguments, on the tree
\* and the outputs the first call left
Rerun ==
  /\ pc \in {"done", "crashed"}
  /\ ~rerun
  /\ rerun' = TRUE
  /\ prev_written' = written
  /\ pc' = "ready"
  /\ listing' = fresh.listing
  /\ visited' = fresh.visited
  /\ input_files' = fresh.input_files
  /\ last' = fresh.last
  /\ i' = fresh.i
  /\ results' = fresh.results
  /\ queue' = fresh.queue
  /\ collected' = fresh.collected
  /\ fut' = fresh.fut
  /\ stack' = fresh.stack
  /\ log' = fresh.log
  /\ reqs' = fresh.reqs
  /\ resps' = fresh.resps
  /\ sleeps' = fresh.sleeps
  /\ batches' = fresh.batches
  /\ existed' = fresh.existed
  /\ outcomes' = fresh.outcomes
  /\ written' = fresh.written
  /\ elapsed' = fresh.elapsed
  /\ UNCHANGED << args, disk, faults >>

NextRerun == Next \/ Rerun

\* the first of the two calls starts without force on a tree without outputs
InitRerun ==
  /\ Init
  /\ ~force
  /\ \A p \in OutPaths : fs[p] = NoFile

SpecRerun == InitRerun /\ [][NextRerun]_vars

\* ================================================================ properties
Dispatched(f) == fut[f].state # "none"

Skipped(f) == Report("skipping", f, 0) \in log

RunOver == pc \in {"done", "crashed"}

\* the submit loop has reached f
Considered(f) ==
  \E k \in 1..Len(batches) : \E p \in 1..Len(batches[k]) :
    /\ batches[k][p] = f
    /\ (k < Len(batches) \/ pc # "submit" \/ p < i)

\* the Task of f is over for the run: skipped, or its one Outcome was handled
Resolved(f) == Skipped(f) \/ (fut[f].state = "done" /\ outcomes[f] = 1)

\* the Task of f failed: its call raised, it has no body, or its write failed
Failed(f) ==
  /\ fut[f].state = "done"
  /\ \/ fut[f].result.kind = "raise"
     \/ fut[f].result.text = None
     \/ \E r \in log : r.kind = "write_failed" /\ r.file = f

\* C1: a Task answered 503 k >= 1 times and then 200 with body B ends with
\* the Outcome (file, 200, B), after k sleeps and k + 1 requests.
C1_RetryThenSuccess ==
  \A f \in Paths :
    LET k == Len(resps[f]) IN
    ( /\ fut[f].state = "done"
      /\ k >= 2
      /\ \A j \in 1..(k - 1) : ~resps[f][j].raised /\ resps[f][j].status = 503
      /\ ~resps[f][k].raised
      /\ resps[f][k].status = 200 )
    => /\ fut[f].result = Return(f, 200, resps[f][k].text)
       /\ sleeps[f] = k - 1
       /\ Len(reqs[f]) = k

\* C2: a Task whose POST fails at transport level ends with an Outcome
\* without body, after that one request, and no exception of it ends the run.
C2_TransportFailureIsOutcome ==
  \A f \in Paths :
    (resps[f] # <<>> /\ resps[f][1].raised)
    => /\ fut[f].state = "done"
       /\ fut[f].result.kind = "return"
       /\ fut[f].result.text = None
       /\ Len(reqs[f]) = 1
       /\ Report("UnboundLocalError", f, 0) \notin log

\* C3: no Task has two Outcomes, and when the run is over every dispatched
\* Task has had exactly one, with a body or with a status other than 200.
C3_OneOutcomePerTask ==
  /\ \A f \in Paths : outcomes[f] <= 1
  /\ RunOver =>
       \A f \in Paths :
         Dispatched(f) =>
           /\ outcomes[f] = 1
           /\ fut[f].result.kind = "return"
           /\ (fut[f].result.text # None \/ fut[f].result.status # 200)

\* C4: when the run is over and a dispatched Task has failed, every other
\* matching file of the run is resolved all the same: its siblings' Outcomes
\* were handled and the later batches were processed.
C4_FailuresIsolated ==
  RunOver =>
    \A f \in Paths :
      (Dispatched(f) /\ Failed(f)) =>
        \A g \in listing \ {f} : Matches(service, g.name) => Resolved(g)

\* C5: a Task whose first POST is answered with a status other than 200 and
\* 503 is over at once: Outcome (file, that status, None), one request, no sleep.
C5_OtherStatusTerminal ==
  \A f \in Paths :
    ( /\ resps[f] # <<>>
      /\ ~resps[f][1].raised
      /\ resps[f][1].status \notin {200, 503} )
    => /\ fut[f].state = "done"
       /\ fut[f].result = Return(f, resps[f][1].status, None)
       /\ Len(reqs[f]) = 1
       /\ Len(resps[f]) = 1
       /\ sleeps[f] = 0

\* a Task answered 404 whose failure the result loop has reported
C5_Witness ==
  \E f \in Paths :
    /\ resps[f] # <<>>
    /\ ~resps[f][1].raised
    /\ resps[f][1].status = 404
    /\ outcomes[f] = 1
    /\ Report("failed", f, 404) \in log

\* C6: at most n Tasks are executing a request or sleeping in backoff.
C6_BoundedInFlight == Cardinality(InFlight) <= n

\* every worker is busy, one of them sleeping, and a submitted Task waits
C6_Witness ==
  /\ Cardinality(InFlight) = n
  /\ queue # <<>>
  /\ \E f \in InFlight : fut[f].state = "sleeping"

\* C7: no Task of a later batch is dispatched before every Task of each
\* earlier batch is resolved (skipped, or finished with its Outcome handled).
C7_BatchesSequential ==
  \A k \in 1..Len(batches) : \A j \in 1..Len(batches) :
    k < j =>
      \A f \in Elems(batches[k]) : \A g \in Elems(batches[j]) :
        (Dispatched(g) \/ reqs[g] # <<>>) => Resolved(f)

\* a Task of the second batch has a request out after a Task of the first
\* batch went through the result loop
C7_Witness ==
  /\ Len(batches) >= 2
  /\ \E f \in Elems(batches[1]) : \E g \in Elems(batches[2]) :
       outcomes[f] = 1 /\ reqs[g] # <<>>

\* the positions of the batches handed to process_batch
Positions ==
  UNION {{<<k, p>> : p \in 1..Len(batches[k])} : k \in 1..Len(batches)}

\* C8: when process() is over, every listed file that matches the service is
\* in exactly one batch at exactly one position, every batched file is a
\* listed matching file, every batch but the last has batch_size files and
\* the last has between 1 and batch_size.
C8_BatchesPartition ==
  RunOver =>
    /\ \A f \in listing :
         Matches(service, f.name) =>
           Cardinality({kp \in Positions : batches[kp[1]][kp[2]] = f}) = 1
    /\ \A k \in 1..Len(batches) : \A f \in Elems(batches[k]) :
         f \in listing /\ Matches(service, f.name)
    /\ \A k \in 1..Len(batches) :
         IF k < Len(batches) THEN Len(batches[k]) = batch_size
         ELSE Len(batches[k]) >= 1 /\ Len(batches[k]) <= batch_size

\* C9: a Task the submit loop has reached is skipped, with no request and no
\* Outcome, exactly when force is not set and its output existed; otherwise
\* it is dispatched.
C9_SkipRule ==
  \A f \in Paths :
    /\ (Considered(f) /\ ~force /\ existed[f])
         => /\ Skipped(f)
            /\ ~Dispatched(f)
            /\ reqs[f] = <<>>
            /\ outcomes[f] = 0
            /\ f \notin written
    /\ (Considered(f) /\ (force \/ ~existed[f])) => (Dispatched(f) /\ ~Skipped(f))
    /\ ~Considered(f) => (~Dispatched(f) /\ ~Skipped(f))

\* a run that ended after skipping one Task and handling another's Outcome
C9_Witness ==
  /\ pc = "done"
  /\ \E f, g \in Paths : Skipped(f) /\ existed[f] /\ Dispatched(g) /\ outcomes[g] = 1

\* C10: in a second run without force, a file whose output the first run
\* wrote gets no request, no Outcome and no write; and a file written in a
\* run has an output at the path the skip rule tests.
C10_Idempotent ==
  /\ (rerun /\ ~force) =>
       \A f \in prev_written :
         /\ reqs[f] = <<>>
         /\ ~Dispatched(f)
         /\ outcomes[f] = 0
         /\ f \notin written
  /\ \A f \in written : isfile(SkipPath(f))

\* the second run is over and skipped a file the first run wrote
C10_Witness ==
  /\ rerun
  /\ ~force
  /\ pc = "done"
  /\ \E f \in prev_written : Skipped(f)

\* C11: with an output root, a file is written under the output root at the
\* directories it has under the input root, named by its first dot-segment.
C11_MirrorsUnderOutputRoot ==
  output # None =>
    \A f \in written :
      WritePath(f) = [root |-> output, dir |-> f.dir,
                      name |-> << f.name[1], "dataseer", "tei", "xml" >>]

\* C12: no document request and no Task before the liveness probe is over; a
\* probe that fails ends in ServerUnavailableException, after which nothing
\* happens; a probe answered with any status gives a client that can process.
C12_ProbeGatesDispatch ==
  /\ [](pc \in ({"new", "unavailable"} \cup ProbeResults) =>
          \A f \in Paths : reqs[f] = <<>> /\ ~Dispatched(f) /\ outcomes[f] = 0)
  /\ [](pc = "ready" => ENABLED Process)
  /\ [][ /\ pc = "probe_failed" => pc' = "unavailable"
         /\ pc \in {"probe_200", "probe_500"} => pc' = "ready"
         /\ pc = "unavailable" => FALSE ]_vars

\* the probe failed and the constructor raised: no Task, no request
C12_Witness ==
  /\ pc = "unavailable"
  /\ \A f \in Paths : reqs[f] = <<>> /\ ~Dispatched(f)

\* the result loop reported that writing the output of f failed
WriteFailed(f) == \E r \in log : r.kind = "write_failed" /\ r.file = f

\* C13: an OSError of mkdir, open or write for one Outcome is reported and
\* caught: the step that meets it counts the Outcome as handled and stays in
\* the result loop, no OSError ever leaves process_batch, the loop can go on
\* while a future is left and process_batch can return when none is.
C13_WriteFailureContained ==
  /\ [](\A r \in log : r.kind # "OSError")
  /\ []((pc = "results" /\ Elems(results) \ collected # {}) => ENABLED Collect)
  /\ []((pc = "results" /\ ResultsExhausted) => ENABLED BatchReturn)
  /\ [][ \A f \in Paths :
           (WriteFailed(f)' /\ ~WriteFailed(f)) =>
             /\ pc = "results"
             /\ pc' = "results"
             /\ collected' = collected \cup {f}
             /\ outcomes' = [outcomes EXCEPT ![f] = @ + 1] ]_vars

\* a run that ended normally after the write of one Outcome of a batch failed
\* and the output of another Task of that batch was written
C13_Witness ==
  /\ pc = "done"
  /\ \E k \in 1..Len(batches) : \E f, g \in Elems(batches[k]) :
       f # g /\ WriteFailed(f) /\ outcomes[f] = 1 /\ g \in written

\* C14: every request of a Task, the first and each retry, goes to the endpoint
\* of the run's service: processDataseerPDF for a PDF Task, processDataseerTEI
\* for a TEI Task.
C14_RetrySameEndpoint ==
  \A f \in Paths : \A k \in 1..Len(reqs[f]) : reqs[f][k] = service

\* an Outcome of a batch was handled while a Task of that batch is in flight
Overlap ==
  \E k \in 1..Len(batches) : \E f, g \in Elems(batches[k]) :
    /\ f # g
    /\ outcomes[f] >= 1
    /\ g \in InFlight

\* two Tasks of one batch are in flight together
TwoInFlight ==
  \E k \in 1..Len(batches) : \E f, g \in Elems(batches[k]) :
    f # g /\ f \in InFlight /\ g \in InFlight

\* C15 as stated, read on the runs where it can show: once two Tasks of a
\* batch are in flight together, the run comes to a state where an Outcome of
\* the batch was handled while another Task of the batch is in flight.
C15_ConsumedWhileInFlight == TwoInFlight ~> Overlap

\* C15 amended: the result loop of a batch starts after every submitted Task
\* of the batch is over, so no Outcome is handled while a Task of its batch is
\* in flight or waits for a worker; the order of the loop is any order.
C15_ConsumedAfterAllFinished ==
  /\ ~Overlap
  /\ pc = "results" => (queue = <<>> /\ InFlight = {})

\* the result loop has handled one Outcome of a batch of two dispatched Tasks
\* and the other, over as well, is still to be handled
C15_Witness ==
  /\ pc = "results"
  /\ \E f, g \in Elems(results) :
       f # g /\ outcomes[f] = 1 /\ g \notin collected /\ fut[g].state = "done"

\* C16: a Task in flight comes to an Outcome once an answer other than 503 or
\* a transport failure arrives; as long as the answers are 503 it has no
\* Outcome and sends one request after each sleep; and while a Task sleeps,
\* the POST of a running Task of the batch can be answered.
C16_RetryEndsWithOutcome ==
  /\ \A f \in Paths :
       (f \in InFlight) ~> (fut[f].state = "done" /\ fut[f].result.kind = "return")
  /\ [](\A f \in Paths :
          /\ fut[f].state = "sleeping" =>
               (outcomes[f] = 0 /\ sleeps[f] >= 1 /\ Len(reqs[f]) = sleeps[f])
          /\ fut[f].state \in {"running", "done"} => Len(reqs[f]) = sleeps[f] + 1)
  /\ []((\E f, g \in Paths : fut[f].state = "sleeping" /\ fut[g].state = "running")
          => ENABLED Respond)

\* C17: the step of the result loop that handles an Outcome without body adds
\* the report of the failure, with the file and the status, and changes no
\* file and no directory.
C17_FailureLeavesFilesystem ==
  [][ \A f \in Paths :
        ( /\ outcomes'[f] = outcomes[f] + 1
          /\ fut[f].result.kind = "return"
          /\ fut[f].result.text = None )
        => /\ fs' = fs
           /\ dirs' = dirs
           /\ written' = written
           /\ log' = log \cup {Report("failed", f, fut[f].result.status)} ]_vars

\* the failure of a Task was reported and neither its output nor the
\* directory of its output exists
C17_Witness ==
  \E f \in Paths :
    /\ outcomes[f] = 1
    /\ fut[f].result.text = None
    /\ Report("failed", f, fut[f].result.status) \in log
    /\ fs[WritePath(f)] = NoFile
    /\ Dir(WritePath(f)) \notin dirs

\* C18: an Outcome has a body exactly when its status is 200, and the content
\* of an output file the run wrote is the text of an answer of status 200 to
\* a Task whose output path it is.
C18_BodyIffOk ==
  /\ \A f \in Paths :
       (fut[f].state = "done" /\ fut[f].result.kind = "return") =>
         (fut[f].result.text # None <=> fut[f].result.status = 200)
  /\ \A f \in written :
       \E k \in 1..Len(resps[f]) :
         /\ ~resps[f][k].raised
         /\ resps[f][k].status = 200
         /\ resps[f][k].text = fut[f].result.text
  /\ \A p \in OutPaths :
       \/ fs[p] \in {NoFile, OldBody, Truncated}
       \/ \E f \in written : WritePath(f) = p /\ fs[p] = fut[f].result.text

\* one Task ended with status 200 and its text is in its output file, another
\* ended with another status and without body
C18_Witness ==
  \E f, g \in Paths :
    /\ f \in written
    /\ fut[f].result.status = 200
    /\ fs[WritePath(f)] = fut[f].result.text
    /\ fut[g].state = "done"
    /\ fut[g].result.kind = "return"
    /\ fut[g].result.status # 200
    /\ fut[g].result.text = None

\* C19: no two input files of a run are written to the same output path.
C19_OutputPathsDistinct ==
  \A f, g \in written : f # g => WritePath(f) # WritePath(g)

====
